---- MODULE Spec2Model ----
(***************************************************************************)
(* Personal finance tracker (src/finance-tracker/app.py): the persisted    *)
(* tables User, Category, Transaction and Goal, and the request handlers.  *)
(*                                                                         *)
(* A handler is modelled twice over: an operator named as in the source,   *)
(* which computes from the request and the tables the response status and  *)
(* the table contents the handler leaves behind, and an action that takes  *)
(* that step.  A handler that commits once is one atomic step.  register   *)
(* commits twice (the user row, then the six default categories), so it is *)
(* two steps, and steps of other requests may come between them; the set   *)
(* seeding holds the ids of the users whose registration is between its    *)
(* two commits.                                                            *)
(***************************************************************************)
EXTENDS Integers, Sequences, FiniteSets, TLC

\* Largest Transaction.id / Goal.id the model lets the tables reach.
MaxTxnId == 1
MaxGoalId == 1

\* Python's None and SQL's NULL.
None == "None"

\* ------------------------------------------------------------------ inputs
Usernames == {"alice", "bob"}
Passwords == {"pw"}
\* What a client sends: category slugs, names and colors, transaction and
\* goal fields.
ReqSlugs == {"c1"}
ReqNames == {"Rent"}
ReqColors == {"#000000"}
ReqTypes == {"Expense"}
ReqAmounts == {5}
ReqDates == {"2026-01-01"}
ReqGoalNames == {"car"}
ReqTargets == {100}
ReqSavings == {0}
ReqDeadlines == {"2027-12-31"}
\* Category ids a client names in a URL or as a body's category_id.
ReqCatIds == {"1-c1", "2-c1"}

\* X-User-ID header: absent, or a string (a sequence of characters): empty,
\* the ids 1 and 2 (the latter with a leading blank, which int() accepts),
\* and one that is no number.
HeaderValues == {<<>>, <<"1">>, <<" ", "2">>, <<"a">>}
Headers ==
    {[present |-> FALSE, value |-> <<>>]}
        \cup {[present |-> TRUE, value |-> v] : v \in HeaderValues}

\* A JSON body holds the supplied fields only.  Partial(full): the body and
\* the bodies that leave one of its fields out.
Restrict(f, S) == [k \in S |-> f[k]]
Partial(full) ==
    {full} \cup {Restrict(full, DOMAIN full \ {k}) : k \in DOMAIN full}
RegisterBodies ==
    UNION {Partial([username |-> n, password |-> w])
               : n \in Usernames \cup {""}, w \in Passwords}
\* Every full transaction body, and the partial ones of category 1-c1.
TxnBodies ==
    {[type |-> t, category_id |-> c, amount |-> a, date |-> d]
         : t \in ReqTypes, c \in ReqCatIds, a \in ReqAmounts, d \in ReqDates}
    \cup UNION {Partial([type |-> t, category_id |-> "1-c1", amount |-> a, date |-> d])
                    : t \in ReqTypes, a \in ReqAmounts, d \in ReqDates}
CategoryBodies ==
    UNION {Partial([id |-> i, name |-> n, color |-> c]) \ {[name |-> n, color |-> c]}
               : i \in ReqSlugs, n \in ReqNames, c \in ReqColors}
CategoryUpdateBodies ==
    UNION {Partial([name |-> n, color |-> c]) : n \in ReqNames, c \in ReqColors}
GoalBodies ==
    UNION {Partial([name |-> n, target_amount |-> t, current_savings |-> s, deadline |-> d])
               : n \in ReqGoalNames, t \in ReqTargets, s \in ReqSavings, d \in ReqDeadlines}
\* Ids a client names in a URL.
TxnUrlIds == 1..MaxTxnId
GoalUrlIds == 1..MaxGoalId

VARIABLES users, categories, transactions, goals, seeding

vars == <<users, categories, transactions, goals, seeding>>
db == <<users, categories, transactions, goals>>

\* ----------------------------------------------------------------- helpers
Has(data, k) == k \in DOMAIN data
\* dict.get(k): None when the key is absent.
Get(data, k) == IF k \in DOMAIN data THEN data[k] ELSE None

Max(S) == CHOOSE x \in S : \A y \in S : y <= x
\* INTEGER PRIMARY KEY without AUTOINCREMENT: one more than the largest id.
NextId(rows) == IF rows = {} THEN 1 ELSE Max({r.id : r \in rows}) + 1

Digits == {"0", "1", "2", "3", "4", "5", "6", "7", "8", "9"}
DigitVal(c) ==
    CASE c = "0" -> 0 [] c = "1" -> 1 [] c = "2" -> 2 [] c = "3" -> 3 [] c = "4" -> 4
      [] c = "5" -> 5 [] c = "6" -> 6 [] c = "7" -> 7 [] c = "8" -> 8 [] c = "9" -> 9

RECURSIVE LStrip(_)
LStrip(s) == IF s # <<>> /\ Head(s) = " " THEN LStrip(Tail(s)) ELSE s
RECURSIVE RStrip(_)
RStrip(s) ==
    IF s # <<>> /\ s[Len(s)] = " " THEN RStrip(SubSeq(s, 1, Len(s) - 1)) ELSE s
RECURSIVE Decimal(_)
Decimal(s) ==
    IF s = <<>> THEN 0 ELSE 10 * Decimal(SubSeq(s, 1, Len(s) - 1)) + DigitVal(s[Len(s)])

\* int(str): surrounding whitespace is dropped, then decimal digits; anything
\* else raises ValueError.
PyInt(s) ==
    LET t == RStrip(LStrip(s))
    IN  IF t # <<>> /\ \A i \in 1..Len(t) : t[i] \in Digits
        THEN [ok |-> TRUE, val |-> Decimal(t)]
        ELSE [ok |-> FALSE, val |-> 0]

\* f"{user_id}-{slug}"
CatId(uid, slug) == ToString(uid) \o "-" \o slug

DefaultCategories ==
    << [id |-> "c1", name |-> "Food", color |-> "#FF6384"],
       [id |-> "c2", name |-> "Transportation", color |-> "#36A2EB"],
       [id |-> "c3", name |-> "Utilities", color |-> "#FFCE56"],
       [id |-> "c4", name |-> "Entertainment", color |-> "#4BC0C0"],
       [id |-> "c5", name |-> "Salary", color |-> "#9966FF"],
       [id |-> "c6", name |-> "Other", color |-> "#C9CBCF"] >>

\* The Category rows register builds for the user it has just committed.
SeedCategories(uid) ==
    {[id |-> CatId(uid, DefaultCategories[i].id), name |-> DefaultCategories[i].name,
      color |-> DefaultCategories[i].color, user_id |-> uid]
        : i \in 1..Len(DefaultCategories)}

\* bcrypt.generate_password_hash: what is stored is not the password.
PasswordHash(password) == "$2b$" \o password

\* get_user_from_header: the user's id (0 for None), or raised when int() raises.
get_user_from_header(h) ==
    IF ~h.present \/ h.value = <<>>
    THEN [raised |-> FALSE, id |-> 0]
    ELSE LET n == PyInt(h.value)
         IN  IF ~n.ok THEN [raised |-> TRUE, id |-> 0]
             ELSE IF \E u \in users : u.id = n.val
                  THEN [raised |-> FALSE, id |-> n.val]
                  ELSE [raised |-> FALSE, id |-> 0]

\* What each authenticated handler answers when get_user_from_header gives no
\* user: 401, or 500 for the exception int() raised, which no handler catches.
AuthStatus(u) == IF u.raised THEN 500 ELSE 401

\* filter_by with the user_id filter forgotten.
FilterByIdOnly(rows, id, uid) == {r \in rows : r.id = id}

\* Model.query.filter_by(id=id, user_id=user_id): the matching rows.
FilterBy(rows, id, uid) == {r \in rows : r.id = id /\ r.user_id = uid}
\* user.transactions, user.categories, user.goals
Owned(rows, uid) == {r \in rows : r.user_id = uid}

Init ==
    /\ users = {}
    /\ categories = {}
    /\ transactions = {}
    /\ goals = {}
    /\ seeding = {}

\* ---------------------------------------------------------------- register
\* register_user with no UNIQUE constraint on User.username.
register_user_not_unique(data, fault) ==
    IF ~Has(data, "username") \/ ~Has(data, "password")
       \/ Get(data, "username") = "" \/ Get(data, "password") = ""
    THEN [status |-> 400, users |-> users, id |-> 0]
    ELSE IF fault
    THEN [status |-> 500, users |-> users, id |-> 0]
    ELSE [status |-> 0,
          users |-> users \cup {[id |-> NextId(users), username |-> data["username"],
                                 password_hash |-> PasswordHash(data["password"])]},
          id |-> NextId(users)]

\* register up to its first commit: the user row.  status 0: no response yet,
\* the handler goes on to seed the categories of user id.
register_user(data, fault) ==
    IF ~Has(data, "username") \/ ~Has(data, "password")
       \/ Get(data, "username") = "" \/ Get(data, "password") = ""
    THEN [status |-> 400, users |-> users, id |-> 0]
    ELSE IF fault
    THEN [status |-> 500, users |-> users, id |-> 0]
    \* the UNIQUE constraint on username: IntegrityError
    ELSE IF \E u \in users : u.username = data["username"]
    THEN [status |-> 409, users |-> users, id |-> 0]
    ELSE [status |-> 0,
          users |-> users \cup {[id |-> NextId(users), username |-> data["username"],
                                 password_hash |-> PasswordHash(data["password"])]},
          id |-> NextId(users)]

\* register from there to its second commit: the six default categories.  A
\* primary key already in the table is an IntegrityError and so a 409; the
\* rollback undoes the pending categories only.
register_categories(uid, fault) ==
    IF \E c \in SeedCategories(uid) : \E d \in categories : d.id = c.id
    THEN [status |-> 409, categories |-> categories]
    ELSE IF fault
    THEN [status |-> 500, categories |-> categories]
    ELSE [status |-> 201, categories |-> categories \cup SeedCategories(uid)]

RegisterUser(data, fault) ==
    LET r == register_user(data, fault)
    IN  /\ users' = r.users
        /\ seeding' = IF r.status = 0 THEN seeding \cup {r.id} ELSE seeding
        /\ UNCHANGED <<categories, transactions, goals>>

RegisterCategories(uid, fault) ==
    /\ uid \in seeding
    /\ categories' = register_categories(uid, fault).categories
    /\ seeding' = seeding \ {uid}
    /\ UNCHANGED <<users, transactions, goals>>

\* ------------------------------------------------------------ GET /api/data
get_all_data(h) ==
    LET u == get_user_from_header(h)
    IN  IF u.id = 0
        THEN [status |-> AuthStatus(u), transactions |-> {}, categories |-> {}, goals |-> {}]
        ELSE [status |-> 200, transactions |-> Owned(transactions, u.id),
              categories |-> Owned(categories, u.id), goals |-> Owned(goals, u.id)]

GetAllData(h) ==
    /\ get_all_data(h).status \in {200, 401, 500}
    /\ UNCHANGED vars

\* -------------------------------------------------------- transaction CRUD
\* add_transaction looking the category up by its id alone.
add_transaction_any_category(h, data, fault) ==
    LET u == get_user_from_header(h)
        category == {x \in categories : x.id = Get(data, "category_id")}
        c == CHOOSE x \in category : TRUE
    IN  IF u.id = 0 THEN [status |-> AuthStatus(u), transactions |-> transactions]
        ELSE IF category = {} THEN [status |-> 404, transactions |-> transactions]
        ELSE IF ~Has(data, "amount") \/ ~Has(data, "type") \/ ~Has(data, "date") \/ fault
        THEN [status |-> 500, transactions |-> transactions]
        ELSE [status |-> 201,
              transactions |-> transactions \cup
                  {[id |-> NextId(transactions), type |-> data["type"],
                    category_id |-> c.id, category_name |-> c.name,
                    category_color |-> c.color, amount |-> data["amount"],
                    date |-> data["date"], user_id |-> u.id]}]

add_transaction(h, data, fault) ==
    LET u == get_user_from_header(h)
        category == FilterBy(categories, Get(data, "category_id"), u.id)
        c == CHOOSE x \in category : TRUE
    IN  IF u.id = 0 THEN [status |-> AuthStatus(u), transactions |-> transactions]
        ELSE IF category = {} THEN [status |-> 404, transactions |-> transactions]
        \* float(None) raises; a NULL type or date violates NOT NULL at the commit
        ELSE IF ~Has(data, "amount") \/ ~Has(data, "type") \/ ~Has(data, "date") \/ fault
        THEN [status |-> 500, transactions |-> transactions]
        ELSE [status |-> 201,
              transactions |-> transactions \cup
                  {[id |-> NextId(transactions), type |-> data["type"],
                    category_id |-> c.id, category_name |-> c.name,
                    category_color |-> c.color, amount |-> data["amount"],
                    date |-> data["date"], user_id |-> u.id]}]

\* update_transaction without the two assignments that refresh the snapshot.
update_transaction_stale_snapshot(h, id, data, fault) ==
    LET u == get_user_from_header(h)
        transaction == FilterBy(transactions, id, u.id)
        t == CHOOSE x \in transaction : TRUE
        category == FilterBy(categories, Get(data, "category_id"), u.id)
        c == CHOOSE x \in category : TRUE
    IN  IF u.id = 0 THEN [status |-> AuthStatus(u), transactions |-> transactions]
        ELSE IF transaction = {} THEN [status |-> 404, transactions |-> transactions]
        ELSE IF category = {} THEN [status |-> 404, transactions |-> transactions]
        ELSE IF ~Has(data, "amount") \/ ~Has(data, "type") \/ ~Has(data, "date") \/ fault
        THEN [status |-> 500, transactions |-> transactions]
        ELSE [status |-> 200,
              transactions |-> (transactions \ {t}) \cup
                  {[t EXCEPT !.type = data["type"], !.category_id = c.id,
                             !.amount = data["amount"], !.date = data["date"]]}]

update_transaction(h, id, data, fault) ==
    LET u == get_user_from_header(h)
        transaction == FilterBy(transactions, id, u.id)
        t == CHOOSE x \in transaction : TRUE
        category == FilterBy(categories, Get(data, "category_id"), u.id)
        c == CHOOSE x \in category : TRUE
    IN  IF u.id = 0 THEN [status |-> AuthStatus(u), transactions |-> transactions]
        ELSE IF transaction = {} THEN [status |-> 404, transactions |-> transactions]
        ELSE IF category = {} THEN [status |-> 404, transactions |-> transactions]
        ELSE IF ~Has(data, "amount") \/ ~Has(data, "type") \/ ~Has(data, "date") \/ fault
        THEN [status |-> 500, transactions |-> transactions]
        ELSE [status |-> 200,
              transactions |-> (transactions \ {t}) \cup
                  {[t EXCEPT !.type = data["type"], !.category_id = c.id,
                             !.category_name = c.name, !.category_color = c.color,
                             !.amount = data["amount"], !.date = data["date"]]}]

delete_transaction(h, id, fault) ==
    LET u == get_user_from_header(h)
        transaction == FilterBy(transactions, id, u.id)
    IN  IF u.id = 0 THEN [status |-> AuthStatus(u), transactions |-> transactions]
        ELSE IF transaction = {} THEN [status |-> 404, transactions |-> transactions]
        ELSE IF fault THEN [status |-> 500, transactions |-> transactions]
        ELSE [status |-> 200, transactions |-> transactions \ transaction]

\* A step of a transaction handler; an insert stays within the model's ids.
TransactionStep(r) ==
    /\ \A t \in r.transactions : t.id <= MaxTxnId
    /\ transactions' = r.transactions
    /\ UNCHANGED <<users, categories, goals, seeding>>

AddTransaction(h, data, fault) == TransactionStep(add_transaction(h, data, fault))
UpdateTransaction(h, id, data, fault) == TransactionStep(update_transaction(h, id, data, fault))
DeleteTransaction(h, id, fault) == TransactionStep(delete_transaction(h, id, fault))

\* ----------------------------------------------------------- category CRUD
add_category(h, data, fault) ==
    LET u == get_user_from_header(h)
        id == CatId(u.id, Get(data, "id"))
    IN  IF u.id = 0 THEN [status |-> AuthStatus(u), categories |-> categories]
        \* a NULL name or color, or an id already in the table, fails the commit
        ELSE IF ~Has(data, "name") \/ ~Has(data, "color")
                \/ (\E d \in categories : d.id = id) \/ fault
        THEN [status |-> 500, categories |-> categories]
        ELSE [status |-> 201,
              categories |-> categories \cup
                  {[id |-> id, name |-> data["name"], color |-> data["color"],
                    user_id |-> u.id]}]

update_category(h, id, data, fault) ==
    LET u == get_user_from_header(h)
        category == FilterBy(categories, id, u.id)
        c == CHOOSE x \in category : TRUE
    IN  IF u.id = 0 THEN [status |-> AuthStatus(u), categories |-> categories]
        ELSE IF category = {} THEN [status |-> 404, categories |-> categories]
        ELSE IF ~Has(data, "name") \/ ~Has(data, "color") \/ fault
        THEN [status |-> 500, categories |-> categories]
        ELSE [status |-> 200,
              categories |-> (categories \ {c}) \cup
                  {[c EXCEPT !.name = data["name"], !.color = data["color"]]}]

delete_category(h, id, fault) ==
    LET u == get_user_from_header(h)
        category == FilterBy(categories, id, u.id)
    IN  IF u.id = 0 THEN [status |-> AuthStatus(u), categories |-> categories]
        ELSE IF category = {} THEN [status |-> 404, categories |-> categories]
        ELSE IF fault THEN [status |-> 500, categories |-> categories]
        ELSE [status |-> 200, categories |-> categories \ category]

CategoryStep(r) ==
    /\ categories' = r.categories
    /\ UNCHANGED <<users, transactions, goals, seeding>>

AddCategory(h, data, fault) == CategoryStep(add_category(h, data, fault))
UpdateCategory(h, id, data, fault) == CategoryStep(update_category(h, id, data, fault))
DeleteCategory(h, id, fault) == CategoryStep(delete_category(h, id, fault))

\* --------------------------------------------------------------- goal CRUD
add_goal(h, data, fault) ==
    LET u == get_user_from_header(h)
    IN  IF u.id = 0 THEN [status |-> AuthStatus(u), goals |-> goals]
        \* float(None) raises for target_amount; a NULL name fails the commit
        ELSE IF ~Has(data, "target_amount") \/ ~Has(data, "name") \/ fault
        THEN [status |-> 500, goals |-> goals]
        ELSE [status |-> 201,
              goals |-> goals \cup
                  {[id |-> NextId(goals), name |-> data["name"],
                    target_amount |-> data["target_amount"],
                    current_savings |->
                        IF Has(data, "current_savings") THEN data["current_savings"] ELSE 0,
                    deadline |-> Get(data, "deadline"), user_id |-> u.id]}]

update_goal(h, id, data, fault) ==
    LET u == get_user_from_header(h)
        goal == FilterBy(goals, id, u.id)
        g == CHOOSE x \in goal : TRUE
    IN  IF u.id = 0 THEN [status |-> AuthStatus(u), goals |-> goals]
        ELSE IF goal = {} THEN [status |-> 404, goals |-> goals]
        ELSE IF ~Has(data, "target_amount") \/ ~Has(data, "current_savings")
                \/ ~Has(data, "name") \/ fault
        THEN [status |-> 500, goals |-> goals]
        ELSE [status |-> 200,
              goals |-> (goals \ {g}) \cup
                  {[g EXCEPT !.name = data["name"],
                             !.target_amount = data["target_amount"],
                             !.current_savings = data["current_savings"],
                             !.deadline = Get(data, "deadline")]}]

\* delete_goal looking the goal up by its id alone.
delete_goal_any_user(h, id, fault) ==
    LET u == get_user_from_header(h)
        goal == {g \in goals : g.id = id}
    IN  IF u.id = 0 THEN [status |-> AuthStatus(u), goals |-> goals]
        ELSE IF goal = {} THEN [status |-> 404, goals |-> goals]
        ELSE IF fault THEN [status |-> 500, goals |-> goals]
        ELSE [status |-> 200, goals |-> goals \ goal]

delete_goal(h, id, fault) ==
    LET u == get_user_from_header(h)
        goal == FilterBy(goals, id, u.id)
    IN  IF u.id = 0 THEN [status |-> AuthStatus(u), goals |-> goals]
        ELSE IF goal = {} THEN [status |-> 404, goals |-> goals]
        ELSE IF fault THEN [status |-> 500, goals |-> goals]
        ELSE [status |-> 200, goals |-> goals \ goal]

GoalStep(r) ==
    /\ \A g \in r.goals : g.id <= MaxGoalId
    /\ goals' = r.goals
    /\ UNCHANGED <<users, categories, transactions, seeding>>

AddGoal(h, data, fault) == GoalStep(add_goal(h, data, fault))
UpdateGoal(h, id, data, fault) == GoalStep(update_goal(h, id, data, fault))
DeleteGoal(h, id, fault) == GoalStep(delete_goal(h, id, fault))

\* ================================================================== claims
UserIds == {u.id : u \in users}
Row(rows, id) == CHOOSE r \in rows : r.id = id
\* A header that is missing, does not parse as an integer, or names no user.
BadHeader(h) ==
    \/ ~h.present
    \/ ~PyInt(h.value).ok
    \/ PyInt(h.value).val \notin UserIds
\* The user a header names, when it names one.
Caller(h) == PyInt(h.value).val
OthersRows(rows, uid) == {r \in rows : r.user_id # uid}

\* C1  Tenant isolation.  For a request by user A (a header naming A):
\* GET /api/data lists rows of A only; a PUT or DELETE on the id of a row
\* another user owns is answered 404; and no handler's result differs from
\* the tables in a row A does not own.
C1_TenantIsolation ==
    \A h \in Headers : ~BadHeader(h) =>
        LET A == Caller(h)
            got == get_all_data(h)
            foreignTxn == {t.id : t \in OthersRows(transactions, A)}
            foreignGoal == {g.id : g \in OthersRows(goals, A)}
            foreignCat == {c.id : c \in OthersRows(categories, A)}
        IN  /\ got.status = 200
            /\ \A r \in got.transactions \cup got.categories \cup got.goals : r.user_id = A
            /\ \A f \in BOOLEAN :
                /\ \A id \in foreignTxn :
                    /\ delete_transaction(h, id, f).status = 404
                    /\ \A d \in TxnBodies : update_transaction(h, id, d, f).status = 404
                /\ \A id \in foreignGoal :
                    /\ delete_goal(h, id, f).status = 404
                    /\ \A d \in GoalBodies : update_goal(h, id, d, f).status = 404
                /\ \A id \in foreignCat :
                    /\ delete_category(h, id, f).status = 404
                    /\ \A d \in CategoryUpdateBodies : update_category(h, id, d, f).status = 404
                /\ \A id \in TxnUrlIds :
                    /\ OthersRows(delete_transaction(h, id, f).transactions, A)
                           = OthersRows(transactions, A)
                    /\ \A d \in TxnBodies :
                           OthersRows(update_transaction(h, id, d, f).transactions, A)
                               = OthersRows(transactions, A)
                /\ \A id \in GoalUrlIds :
                    /\ OthersRows(delete_goal(h, id, f).goals, A) = OthersRows(goals, A)
                    /\ \A d \in GoalBodies :
                           OthersRows(update_goal(h, id, d, f).goals, A) = OthersRows(goals, A)
                /\ \A id \in ReqCatIds :
                    /\ OthersRows(delete_category(h, id, f).categories, A)
                           = OthersRows(categories, A)
                    /\ \A d \in CategoryUpdateBodies :
                           OthersRows(update_category(h, id, d, f).categories, A)
                               = OthersRows(categories, A)

\* Two users, one of them owning a transaction, a category and a goal: every
\* PUT and DELETE of the other on those ids is the claim's case.
C1_Witness ==
    \E a \in UserIds, b \in UserIds :
        /\ a # b
        /\ Owned(categories, a) # {}
        /\ Owned(transactions, b) # {}
        /\ Owned(categories, b) # {}
        /\ Owned(goals, b) # {}

\* C2  When register answers 201 for user u, u owns exactly the six default
\* categories and no transaction and no goal.
C2_RegisterSeedsExactlySix ==
    [][\A uid \in seeding :
          (RegisterCategories(uid, FALSE) /\ register_categories(uid, FALSE).status = 201)
              => /\ Owned(categories', uid) = SeedCategories(uid)
                 /\ Owned(transactions', uid) = {}
                 /\ Owned(goals', uid) = {}]_vars

\* A registration body whose username a user already has.
TakenUsername(d) ==
    /\ Has(d, "username") /\ Has(d, "password")
    /\ \E u \in users : u.username = d["username"]

C3_Answered409 ==
    /\ \A u \in users, v \in users : u.username = v.username => u = v
    /\ \A d \in RegisterBodies :
        TakenUsername(d) =>
            LET r == register_user(d, FALSE)
            IN  r.status = 409 /\ r.users = users /\ r.id = 0

\* C3  Usernames are unique in every reachable state, and a registration
\* whose username is taken, also by a user whose own registration is still
\* between its two commits, is answered 409 (when the store itself does not
\* fail), creates no user, starts no seeding of categories and leaves every
\* table as it is.
C3_UsernamesUnique ==
    /\ []C3_Answered409
    /\ [][\A d \in RegisterBodies :
              (TakenUsername(d) /\ RegisterUser(d, FALSE)) => UNCHANGED vars]_vars

\* A user is registered and its registration is still between its two
\* commits: a second request with the same username is interleaved with it.
C3_Witness ==
    /\ \E u \in users : u.id \in seeding
    /\ Cardinality(users) = 2

\* C4  A mutating request that ends in an error response leaves the tables
\* as they were before it started; in particular a registration whose
\* category seeding fails leaves no user row behind.
C4_FailedRegistrationLeavesNoUser ==
    [][\A uid \in seeding, f \in BOOLEAN :
          (RegisterCategories(uid, f) /\ register_categories(uid, f).status >= 400)
              => uid \notin {u.id : u \in users'}]_vars

\* C5  No request sees a user whose registration is between its two commits
\* without the six default categories: GET /api/data for such a user, if it
\* is answered 200, lists them.
C5_UserAndSeedsVisibleTogether ==
    \A h \in Headers :
        LET got == get_all_data(h)
        IN  (~BadHeader(h) /\ Caller(h) \in seeding /\ got.status = 200)
                => SeedCategories(Caller(h)) \subseteq got.categories

\* C6  A request to an authenticated endpoint whose X-User-ID is missing,
\* does not parse as an integer or names no user is answered 401 and changes
\* no table.
C6_BadHeaderIs401 ==
    \A h \in Headers : BadHeader(h) =>
        \A f \in BOOLEAN :
            /\ get_all_data(h).status = 401
            /\ \A d \in TxnBodies :
                /\ add_transaction(h, d, f) = [status |-> 401, transactions |-> transactions]
                /\ \A id \in TxnUrlIds :
                       update_transaction(h, id, d, f)
                           = [status |-> 401, transactions |-> transactions]
            /\ \A id \in TxnUrlIds :
                   delete_transaction(h, id, f) = [status |-> 401, transactions |-> transactions]
            /\ \A d \in CategoryBodies :
                   add_category(h, d, f) = [status |-> 401, categories |-> categories]
            /\ \A id \in ReqCatIds :
                /\ delete_category(h, id, f) = [status |-> 401, categories |-> categories]
                /\ \A d \in CategoryUpdateBodies :
                       update_category(h, id, d, f) = [status |-> 401, categories |-> categories]
            /\ \A d \in GoalBodies :
                /\ add_goal(h, d, f) = [status |-> 401, goals |-> goals]
                /\ \A id \in GoalUrlIds :
                       update_goal(h, id, d, f) = [status |-> 401, goals |-> goals]
            /\ \A id \in GoalUrlIds :
                   delete_goal(h, id, f) = [status |-> 401, goals |-> goals]

\* C7  POST /api/transactions and PUT /api/transactions/{id} by user A with
\* a category_id that is not the id of a category A owns now are answered
\* 404 and leave the transactions as they are.
C7_ForeignCategoryIs404 ==
    \A h \in Headers : ~BadHeader(h) =>
        \A d \in TxnBodies, f \in BOOLEAN :
            (~\E c \in categories : c.id = Get(d, "category_id") /\ c.user_id = Caller(h))
                => /\ add_transaction(h, d, f) = [status |-> 404, transactions |-> transactions]
                   /\ \A id \in TxnUrlIds :
                          update_transaction(h, id, d, f)
                              = [status |-> 404, transactions |-> transactions]

\* User a owns a transaction, and a category exists that another user owns:
\* a's POST or PUT naming that category is the claim's case.
C7_Witness ==
    \E a \in UserIds :
        /\ Owned(transactions, a) # {}
        /\ \E c \in categories : c.user_id # a /\ c.id \in ReqCatIds

\* The category fields of transaction t are those of category c.
SnapshotOf(t, c) ==
    /\ t.category_id = c.id
    /\ t.category_name = c.name
    /\ t.category_color = c.color

\* C8  Snapshot on write.  The transaction a successful POST or PUT writes
\* carries the id, name and color of the category the body names, as they
\* are at that moment; a step that changes the categories (a PUT or DELETE
\* of one) changes no transaction, and a step that changes the transactions
\* changes no category.
C8_SnapshotWritten ==
    \A h \in Headers : ~BadHeader(h) =>
        \A d \in TxnBodies :
            LET posted == add_transaction(h, d, FALSE)
                c == CHOOSE x \in categories : x.id = Get(d, "category_id")
            IN  /\ posted.status = 201 =>
                    \A t \in posted.transactions \ transactions : SnapshotOf(t, c)
                /\ \A id \in TxnUrlIds :
                    LET put == update_transaction(h, id, d, FALSE)
                    IN  put.status = 200 =>
                            /\ \E t \in put.transactions : t.id = id
                            /\ SnapshotOf(Row(put.transactions, id), c)

C8_SnapshotOnWrite ==
    /\ []C8_SnapshotWritten
    /\ [][/\ categories' # categories => transactions' = transactions
          /\ transactions' # transactions => categories' = categories]_vars

\* A transaction whose category was edited after the transaction was written:
\* the transaction still carries the old name.
C8_Witness ==
    \E t \in transactions : \E c \in categories :
        /\ c.id = t.category_id
        /\ c.name # t.category_name
        /\ t.category_name = "Food"

\* C9  A successful PUT overwrites only the fields the body supplies: a
\* field the body leaves out keeps its value, as do the row's id and
\* user_id and every other row.
C9_UpdateKeepsOmittedFields ==
    \A h \in Headers : ~BadHeader(h) =>
        \A id \in GoalUrlIds, d \in GoalBodies :
            LET put == update_goal(h, id, d, FALSE)
                old == Row(goals, id)
                new == Row(put.goals, id)
            IN  put.status = 200 =>
                    /\ \E g \in put.goals : g.id = id
                    /\ new.id = old.id /\ new.user_id = old.user_id
                    /\ Has(d, "name") \/ new.name = old.name
                    /\ Has(d, "target_amount") \/ new.target_amount = old.target_amount
                    /\ Has(d, "current_savings") \/ new.current_savings = old.current_savings
                    /\ Has(d, "deadline") \/ new.deadline = old.deadline
                    /\ put.goals \ {new} = goals \ {old}

\* C10 (as claimed)  In every reachable state each transaction's category_id
\* is the id of an existing category owned by the transaction's user.
C10_CategoryAlwaysExists ==
    \A t \in transactions :
        \E c \in categories : c.id = t.category_id /\ c.user_id = t.user_id

\* C10 (amended)  Each transaction's user exists; a category with the
\* transaction's category_id, if there is one, is owned by the transaction's
\* user; and the transaction a successful POST or PUT writes names a category
\* that exists then and is owned by the caller.
C10_CategoryOwnedWhenWritten ==
    /\ \A t \in transactions :
        /\ t.user_id \in UserIds
        /\ \A c \in categories : c.id = t.category_id => c.user_id = t.user_id
    /\ \A h \in Headers : ~BadHeader(h) =>
        \A d \in TxnBodies :
            LET posted == add_transaction(h, d, FALSE)
            IN  /\ posted.status = 201 =>
                    \A t \in posted.transactions \ transactions :
                        /\ t.user_id = Caller(h)
                        /\ FilterBy(categories, t.category_id, Caller(h)) # {}
                /\ \A id \in TxnUrlIds :
                    LET put == update_transaction(h, id, d, FALSE)
                    IN  put.status = 200 =>
                            \A t \in FilterBy(put.transactions, id, Caller(h)) :
                                FilterBy(categories, t.category_id, Caller(h)) # {}

\* A transaction whose category has been deleted since it was written.
C10_Witness ==
    \E t \in transactions : \A c \in categories : c.id # t.category_id

\* A commit that fails in a handler that commits once leaves every table as
\* it was: a step that changes nothing, which [Next]_vars allows already.  So
\* Next takes the fault only at the two commits of register.
Next ==
    \/ \E data \in RegisterBodies, fault \in BOOLEAN : RegisterUser(data, fault)
    \/ \E uid \in seeding, fault \in BOOLEAN : RegisterCategories(uid, fault)
    \/ \E h \in Headers : GetAllData(h)
    \/ \E h \in Headers, data \in TxnBodies : AddTransaction(h, data, FALSE)
    \/ \E h \in Headers, id \in TxnUrlIds, data \in TxnBodies :
           UpdateTransaction(h, id, data, FALSE)
    \/ \E h \in Headers, id \in TxnUrlIds : DeleteTransaction(h, id, FALSE)
    \/ \E h \in Headers, data \in CategoryBodies : AddCategory(h, data, FALSE)
    \/ \E h \in Headers, id \in ReqCatIds, data \in CategoryUpdateBodies :
           UpdateCategory(h, id, data, FALSE)
    \/ \E h \in Headers, id \in ReqCatIds : DeleteCategory(h, id, FALSE)
    \/ \E h \in Headers, data \in GoalBodies : AddGoal(h, data, FALSE)
    \/ \E h \in Headers, id \in GoalUrlIds, data \in GoalBodies :
           UpdateGoal(h, id, data, FALSE)
    \/ \E h \in Headers, id \in GoalUrlIds : DeleteGoal(h, id, FALSE)

Spec == Init /\ [][Next]_vars
====
